---- MODULE Spec2Model ----
(***************************************************************************)
(* Model of minitorch/autodiff.py: central_difference, topological_sort,   *)
(* backpropagate and the Context scratch record.                           *)
(*                                                                         *)
(* A computation graph is a set of Variables 1..MaxNodes (the unique_id is *)
(* the node number).  Every History lists inputs with a smaller id, so the *)
(* graph is a DAG.  The concrete Variable classes are not part of the      *)
(* file; is_leaf, is_constant, chain_rule and accumulate_derivative follow *)
(* the capability contract of the Variable protocol.                       *)
(***************************************************************************)
EXTENDS Integers, Sequences, FiniteSets, TLC

VARIABLES history, constant, derivative, order, visited, cur_derivs,
          chainLog, accLog, calls,
          no_grad, saved_values, lastSaved, nSaves,
          cd

vars == <<history, constant, derivative, order, visited, cur_derivs,
          chainLog, accLog, calls, no_grad, saved_values, lastSaved, nSaves, cd>>

graphVars == <<history, constant, derivative, order, visited, cur_derivs,
               chainLog, accLog, calls>>
ctxVars == <<no_grad, saved_values, lastSaved, nSaves>>

(* ------------------------------ bounds --------------------------------- *)
MaxNodes == 3
MaxInputs == 2
MaxCalls == 2
MaxSaved == 3
MaxSaves == 2
MaxArgs == 2

Nodes == 1..MaxNodes
Seeds == {1, 3}
SavedVals == {1, 2, 3}
ArgVals == {0 - 1, 0, 1, 2}
Epsilons == {0, 1, 2}
Funcs == {"sum", "prod", "squares"}

(* ------------------------------ helpers -------------------------------- *)
SeqsUpTo(S, lo, hi) == UNION {[1..n -> S] : n \in lo..hi}

Reverse(s) == [i \in 1..Len(s) |-> s[Len(s) + 1 - i]]

Range(s) == {s[i] : i \in 1..Len(s)}

Occurrences(s, x) == Cardinality({i \in 1..Len(s) : s[i] = x})

LogCount(log, n) == Cardinality({i \in 1..Len(log) : log[i][1] = n})

RECURSIVE SumTo(_, _)
SumTo(f, n) == IF n = 0 THEN 0 ELSE f[n] + SumTo(f, n - 1)

RECURSIVE ProdTo(_, _)
ProdTo(f, n) == IF n = 0 THEN 1 ELSE f[n] * ProdTo(f, n - 1)

Abs(x) == IF x < 0 THEN 0 - x ELSE x

RECURSIVE GCD(_, _)
GCD(a, b) == IF b = 0 THEN a ELSE GCD(b, a % b)

(* ---------------------- the Variable protocol -------------------------- *)
NoHistory == [has |-> FALSE, last_fn |-> FALSE, inputs |-> <<>>]
LeafHistory == [has |-> TRUE, last_fn |-> FALSE, inputs |-> <<>>]
FnHistory(ins) == [has |-> TRUE, last_fn |-> TRUE, inputs |-> ins]

Histories(n) ==
    {NoHistory, LeafHistory}
        \cup {FnHistory(ins) : ins \in SeqsUpTo(1..(n - 1), 1, MaxInputs)}

RECURSIVE Graphs(_)
Graphs(n) ==
    IF n = 0 THEN {<<>>}
    ELSE {Append(g, h) : g \in Graphs(n - 1), h \in Histories(n)}

is_leaf(v) == ~history[v].has \/ ~history[v].last_fn

is_constant(v) == constant[v]

parents(v) == history[v].inputs

LocalDeriv(v, i) == v + i

chain_rule(v, d_output) ==
    [i \in 1..Len(parents(v)) |-> <<parents(v)[i], d_output * LocalDeriv(v, i)>>]

accumulate_derivative(derivs, v, x) == [derivs EXCEPT ![v] = @ + x]

(* -------------------------- topological_sort --------------------------- *)
RECURSIVE visit(_, _)
RECURSIVE visitInputs(_, _, _)

visitInputs(inputs, i, st) ==
    IF i > Len(inputs) THEN st
    ELSE visitInputs(inputs, i + 1,
                     IF inputs[i] \notin st.visited
                     THEN visit(inputs[i], st) ELSE st)

visit(variable, st) ==
    IF variable \in st.visited THEN st
    ELSE LET marked == [st EXCEPT !.visited = @ \cup {variable}]
         IN IF history[variable].has
            THEN LET after == visitInputs(history[variable].inputs, 1, marked)
                 IN [after EXCEPT !.top_order = Append(@, variable)]
            ELSE marked

SortStart(variable) == [top_order |-> <<variable>>, visited |-> {}]

SortState(variable) == visit(variable, SortStart(variable))

topological_sort(variable) == Reverse(SortState(variable).top_order)

(* ----------------------------- backpropagate --------------------------- *)
StartDerivsLeak(old, id, deriv) == (id :> deriv) @@ old

StartDerivs(old, id, deriv) == id :> deriv

AddGrad(derivs, id, grad) ==
    IF id \in DOMAIN derivs
    THEN [derivs EXCEPT ![id] = @ + grad]
    ELSE (id :> grad) @@ derivs

RECURSIVE AddAll(_, _, _)
AddAll(derivs, chain_seq, k) ==
    IF k > Len(chain_seq) THEN derivs
    ELSE AddAll(AddGrad(derivs, chain_seq[k][1], chain_seq[k][2]), chain_seq, k + 1)

ProcessNode(node, st) ==
    LET defaulted == IF node \notin DOMAIN st.cur_derivs
                     THEN (node :> 0) @@ st.cur_derivs
                     ELSE st.cur_derivs
        cur_der == defaulted[node]
    IN IF is_leaf(node)
       THEN [st EXCEPT !.cur_derivs = defaulted,
                       !.derivative = accumulate_derivative(@, node, cur_der),
                       !.accLog = Append(@, <<node, cur_der>>)]
       ELSE [st EXCEPT !.cur_derivs = AddAll(defaulted, chain_rule(node, cur_der), 1),
                       !.chainLog = Append(@, <<node, cur_der>>)]

RECURSIVE ProcessOrder(_, _, _)
ProcessOrder(top_order, k, st) ==
    IF k > Len(top_order) THEN st
    ELSE ProcessOrder(top_order, k + 1, ProcessNode(top_order[k], st))

backpropagate(variable, deriv, derivs, old) ==
    ProcessOrder(topological_sort(variable), 1,
                 [cur_derivs |-> StartDerivs(old, variable, deriv),
                  derivative |-> derivs,
                  chainLog |-> <<>>,
                  accLog |-> <<>>])

(* -------------------------------- Context ------------------------------ *)
save_for_backward_append(ng, saved, values) == IF ng THEN saved ELSE saved \o values

save_for_backward(ng, saved, values) == IF ng THEN saved ELSE values

saved_tensors == saved_values

(* --------------------------- central_difference ------------------------ *)
Apply(f, args) ==
    CASE f = "sum" -> SumTo(args, Len(args))
      [] f = "prod" -> ProdTo(args, Len(args))
      [] f = "squares" -> SumTo([i \in 1..Len(args) |-> args[i] * args[i]], Len(args))

TrueDiv(a, b) ==
    IF b = 0 THEN [zero_division |-> TRUE, num |-> 0, den |-> 0]
    ELSE LET g == GCD(Abs(a), Abs(b))
             s == IF b < 0 THEN 0 - 1 ELSE 1
         IN [zero_division |-> FALSE, num |-> (s * a) \div g, den |-> (s * b) \div g]

new_vals_plus(vals, arg, epsilon) == [vals EXCEPT ![arg + 1] = @ + epsilon]

new_vals_minus_unshifted(vals, arg, epsilon) == vals

new_vals_minus(vals, arg, epsilon) == [vals EXCEPT ![arg + 1] = @ - epsilon]

central_difference(f, vals, arg, epsilon) ==
    LET plus == new_vals_plus(vals, arg, epsilon)
        minus == new_vals_minus(vals, arg, epsilon)
        f_plus == Apply(f, plus)
        f_minus == Apply(f, minus)
    IN [f |-> f, vals |-> vals, arg |-> arg, epsilon |-> epsilon,
        called |-> TRUE,
        fcalls |-> <<plus, minus>>,
        valsAfter |-> vals,
        result |-> TrueDiv(f_plus - f_minus, 2 * epsilon)]

CdIdle == [f |-> "sum", vals |-> <<0>>, arg |-> 0, epsilon |-> 1, called |-> FALSE,
           fcalls |-> <<>>, valsAfter |-> <<0>>,
           result |-> [zero_division |-> FALSE, num |-> 0, den |-> 1]]

(* ------------------------------ state machine -------------------------- *)
GraphIdle ==
    /\ derivative = [n \in Nodes |-> 0]
    /\ order = <<>>
    /\ visited = {}
    /\ cur_derivs = <<>>
    /\ chainLog = <<>>
    /\ accLog = <<>>
    /\ calls = <<>>

CtxIdle ==
    /\ saved_values = <<>>
    /\ lastSaved = <<>>
    /\ nSaves = 0

Init ==
    /\ history \in Graphs(MaxNodes)
    /\ constant \in [Nodes -> BOOLEAN]
    /\ GraphIdle
    /\ no_grad = FALSE
    /\ CtxIdle
    /\ cd = CdIdle

TopologicalSortCall(root) ==
    /\ Len(calls) < MaxCalls
    /\ order' = topological_sort(root)
    /\ visited' = SortState(root).visited
    /\ calls' = Append(calls, [op |-> "topological_sort", root |-> root, seed |-> 0])
    /\ chainLog' = <<>>
    /\ accLog' = <<>>
    /\ UNCHANGED <<history, constant, derivative, cur_derivs, ctxVars, cd>>

BackpropagateCall(root, seed) ==
    /\ Len(calls) < MaxCalls
    /\ LET done == backpropagate(root, seed, derivative, cur_derivs)
       IN /\ derivative' = done.derivative
          /\ cur_derivs' = done.cur_derivs
          /\ chainLog' = done.chainLog
          /\ accLog' = done.accLog
    /\ order' = topological_sort(root)
    /\ visited' = SortState(root).visited
    /\ calls' = Append(calls, [op |-> "backpropagate", root |-> root, seed |-> seed])
    /\ UNCHANGED <<history, constant, ctxVars, cd>>

Next ==
    \/ \E root \in Nodes : TopologicalSortCall(root)
    \/ \E root \in Nodes, seed \in Seeds : BackpropagateCall(root, seed)

Spec == Init /\ [][Next]_vars

(* Repeated backpropagation from one root over an unchanged graph.  The    *)
(* traversal and the accumulation never read is_constant, so the flags are *)
(* fixed here.                                                             *)
InitRepeat ==
    /\ history \in Graphs(MaxNodes)
    /\ constant = [n \in Nodes |-> FALSE]
    /\ GraphIdle
    /\ no_grad = FALSE
    /\ CtxIdle
    /\ cd = CdIdle

FirstBackprop(root, seed) ==
    /\ calls = <<>>
    /\ BackpropagateCall(root, seed)

RepeatBackprop(seed) ==
    /\ calls # <<>>
    /\ BackpropagateCall(calls[Len(calls)].root, seed)

NextRepeat ==
    \/ \E root \in Nodes, seed \in Seeds : FirstBackprop(root, seed)
    \/ \E seed \in Seeds : RepeatBackprop(seed)

SpecRepeat == InitRepeat /\ [][NextRepeat]_vars

InitContext ==
    /\ history = [n \in Nodes |-> NoHistory]
    /\ constant = [n \in Nodes |-> FALSE]
    /\ GraphIdle
    /\ no_grad \in BOOLEAN
    /\ CtxIdle
    /\ cd = CdIdle

SaveForBackward(values) ==
    /\ nSaves < MaxSaves
    /\ saved_values' = save_for_backward(no_grad, saved_values, values)
    /\ lastSaved' = values
    /\ nSaves' = nSaves + 1
    /\ UNCHANGED <<graphVars, no_grad, cd>>

NextContext == \E values \in SeqsUpTo(SavedVals, 0, MaxSaved) : SaveForBackward(values)

SpecContext == InitContext /\ [][NextContext]_vars

InitCD ==
    /\ history = [n \in Nodes |-> NoHistory]
    /\ constant = [n \in Nodes |-> FALSE]
    /\ GraphIdle
    /\ no_grad = FALSE
    /\ CtxIdle
    /\ cd = CdIdle

CentralDifferenceCall(f, vals, arg, epsilon) ==
    /\ cd' = central_difference(f, vals, arg, epsilon)
    /\ UNCHANGED <<graphVars, ctxVars>>

NextCD ==
    \E f \in Funcs, vals \in SeqsUpTo(ArgVals, 1, MaxArgs), epsilon \in Epsilons :
        \E arg \in 0..(Len(vals) - 1) : CentralDifferenceCall(f, vals, arg, epsilon)

SpecCD == InitCD /\ [][NextCD]_vars

(* ------------------------- reference definitions ----------------------- *)
Called == Len(calls) > 0

LastCall == calls[Len(calls)]

BackpropDone == Called /\ LastCall.op = "backpropagate"

Step(S) == S \cup {p \in Nodes : ~constant[p] /\ \E v \in S : p \in Range(parents(v))}

RECURSIVE Closure(_)
Closure(S) == IF Step(S) = S THEN S ELSE Closure(Step(S))

(* the root and the non-constant Variables reachable from it through      *)
(* history inputs                                                          *)
NCReach(root) == Closure({root})

(* multivariate chain rule: the seed at the root, elsewhere the sum over   *)
(* every consuming edge of the consumer's gradient times the local factor  *)
RECURSIVE Grad(_, _, _)
Grad(n, root, seed) ==
    IF n = root THEN seed
    ELSE LET edges == {e \in ((n + 1)..MaxNodes) \X (1..MaxInputs) :
                          /\ e[1] \in NCReach(root)
                          /\ ~is_leaf(e[1])
                          /\ e[2] <= Len(parents(e[1]))
                          /\ parents(e[1])[e[2]] = n}
             contrib == [e \in edges |-> Grad(e[1], root, seed) * LocalDeriv(e[1], e[2])]
             idx == [m \in (n + 1)..MaxNodes |->
                        [i \in 1..MaxInputs |->
                            IF <<m, i>> \in edges THEN contrib[<<m, i>>] ELSE 0]]
         IN SumTo([k \in 1..(MaxNodes - n) |-> SumTo(idx[n + k], MaxInputs)], MaxNodes - n)

SinglePass(root, seed) == backpropagate(root, seed, [n \in Nodes |-> 0], <<>>).derivative

RECURSIVE SumOfPasses(_)
SumOfPasses(k) ==
    IF k = 0 THEN [n \in Nodes |-> 0]
    ELSE IF calls[k].op = "backpropagate"
         THEN LET before == SumOfPasses(k - 1)
                  pass == SinglePass(calls[k].root, calls[k].seed)
              IN [n \in Nodes |-> before[n] + pass[n]]
         ELSE SumOfPasses(k - 1)

(* -------------------------------- claims ------------------------------- *)

(* C1: in the sequence returned by topological_sort every occurrence of a  *)
(* Variable precedes every occurrence of each of its history inputs.       *)
C1_ChildBeforeParent ==
    Called =>
        \A i, j \in 1..Len(order) :
            (history[order[i]].has /\ order[j] \in Range(parents(order[i]))) => i < j

(* C2: the returned sequence contains every non-constant Variable          *)
(* reachable from the root, the root and leaves without History included.  *)
C2_ContainsReachable ==
    Called => \A n \in NCReach(LastCall.root) : n \in Range(order)

(* C3: no Variable occurs more than once in the returned sequence.         *)
C3_NoDuplicates ==
    Called => \A n \in Nodes : Occurrences(order, n) <= 1

(* C4: a constant Variable reachable from a non-constant root is never     *)
(* visited, never in the output, and never gets chain_rule or              *)
(* accumulate_derivative during backpropagate.                             *)
C4_ConstantsPruned ==
    (Called /\ ~constant[LastCall.root]) =>
        \A n \in Nodes :
            constant[n] =>
                /\ n \notin visited
                /\ n \notin Range(order)
                /\ LogCount(chainLog, n) = 0
                /\ LogCount(accLog, n) = 0

(* C5: one backpropagate calls accumulate_derivative exactly once on every *)
(* reachable leaf and never on an unreachable Variable; on a bare leaf     *)
(* root with seed 3 the sink gets exactly 3 and chain_rule is not called.  *)
C5_AccumulateOncePerLeaf ==
    BackpropDone =>
        /\ \A n \in Nodes :
              /\ (is_leaf(n) /\ n \in NCReach(LastCall.root)) => LogCount(accLog, n) = 1
              /\ n \notin NCReach(LastCall.root) => LogCount(accLog, n) = 0
        /\ (~history[LastCall.root].has /\ ~constant[LastCall.root] /\ LastCall.seed = 3) =>
              (accLog = <<<<LastCall.root, 3>>>> /\ chainLog = <<>>)

(* C6: one backpropagate calls chain_rule exactly once on every reachable  *)
(* non-leaf Variable, the root included, and never on a leaf.              *)
C6_ChainRuleOncePerNode ==
    BackpropDone =>
        \A n \in Nodes :
            /\ (n \in NCReach(LastCall.root) /\ ~is_leaf(n)) => LogCount(chainLog, n) = 1
            /\ is_leaf(n) => LogCount(chainLog, n) = 0

(* C7: every reachable leaf receives through accumulate_derivative the sum *)
(* over all paths of the chain-rule contributions, and every chain_rule    *)
(* call gets the complete sum of its consumers' contributions.             *)
C7_PathSums ==
    BackpropDone =>
        \A n \in NCReach(LastCall.root) :
            /\ is_leaf(n) =>
                  /\ LogCount(accLog, n) >= 1
                  /\ \A k \in 1..Len(accLog) :
                        accLog[k][1] = n => accLog[k][2] = Grad(n, LastCall.root, LastCall.seed)
            /\ ~is_leaf(n) =>
                  \A k \in 1..Len(chainLog) :
                        chainLog[k][1] = n => chainLog[k][2] = Grad(n, LastCall.root, LastCall.seed)

(* C8: after several backpropagate calls on the unchanged graph every      *)
(* leaf's accumulated derivative is the sum of what each call alone        *)
(* accumulates on a fresh graph; nothing of one call leaks into the next.  *)
C8_Additive ==
    derivative = SumOfPasses(Len(calls))

C8_Witness ==
    /\ Len(calls) = 2
    /\ calls[1].op = "backpropagate" /\ calls[2].op = "backpropagate"
    /\ calls[1].root = calls[2].root
    /\ calls[1].seed = 1 /\ calls[2].seed = 3
    /\ ~is_leaf(calls[1].root)
    /\ \E n \in Nodes : is_leaf(n) /\ derivative[n] > 0 /\ LogCount(accLog, n) = 1

(* C9: saved_tensors is the argument sequence of the latest                *)
(* save_for_backward when no_grad is false, and empty when none was made   *)
(* or no_grad is true.                                                     *)
C9_LastSaved ==
    saved_tensors = IF no_grad \/ nSaves = 0 THEN <<>> ELSE lastSaved

C9_Witness ==
    /\ ~no_grad
    /\ nSaves = 2
    /\ Len(lastSaved) = 1
    /\ saved_tensors = lastSaved

(* C10: central_difference evaluates f exactly twice, on vals with epsilon *)
(* added at arg and on vals with epsilon subtracted at arg, leaves vals    *)
(* alone, and returns (f(plus) - f(minus)) / (2 * epsilon).                *)
C10_CentralDifference ==
    cd.called =>
        LET shifted(d) == [i \in 1..Len(cd.vals) |->
                              IF i = cd.arg + 1 THEN cd.vals[i] + d ELSE cd.vals[i]]
        IN /\ Len(cd.fcalls) = 2
           /\ cd.fcalls[1] = shifted(cd.epsilon)
           /\ cd.fcalls[2] = shifted(0 - cd.epsilon)
           /\ cd.valsAfter = cd.vals
           /\ cd.result = TrueDiv(Apply(cd.f, shifted(cd.epsilon))
                                    - Apply(cd.f, shifted(0 - cd.epsilon)),
                                  2 * cd.epsilon)

C10_Witness ==
    /\ cd.called
    /\ cd.f = "prod" /\ cd.vals = <<2, 1>> /\ cd.arg = 1 /\ cd.epsilon = 1
    /\ cd.result = [zero_division |-> FALSE, num |-> 2, den |-> 1]

====
